---- MODULE Spec2Model ----
(***************************************************************************)
(* Habit tracking core of habitflow-be: the habit lifecycle (HabitService), *)
(* the completion tracker (HabitCompletionService), the recurrence engine  *)
(* (HabitScheduleService) and the two repositories they write through.     *)
(*                                                                         *)
(* Time is counted in whole hours since the epoch (UTC).  The server       *)
(* process has one local zone, tz hours east of UTC; every Date method the *)
(* code calls without "UTC" in its name (setHours, getDay, setDate) works  *)
(* on that local clock, while new Date("YYYY-MM-DD") and toISOString work  *)
(* on the UTC one.                                                         *)
(***************************************************************************)
EXTENDS Integers, Sequences, FiniteSets, TLC

VARIABLES now, tz, habits, completions, calls

vars == <<now, tz, habits, completions, calls>>

-----------------------------------------------------------------------------
(* Bounds of the model *)

MaxCompletions == 2
MaxElapsed == 25
StartInstant == 483
MaxTodayHabits == 101

(* Program constants *)

UNDO_WINDOW_HOURS == 24
HoursPerDay == 24
DaysPerWeek == 7
DEFAULT_PAGE_SIZE == 20
TODAY_PAGE_SIZE == 100

NULL == -1

Users == {"u1", "u2"}
\* Habits are created by Owners; the other users only address habits of others.
Owners == {"u1"}
HabitIds == {"h1"}
Procs == {"p1", "p2"}
TzOffsets == {-5, 0, 10}
TickSteps == {24, 25}

NoRow == [null |-> TRUE]
NoDetails == [undefined |-> TRUE]

ACTIVE == "ACTIVE"
PAUSED == "PAUSED"
ARCHIVED == "ARCHIVED"
HabitStatus == {ACTIVE, PAUSED, ARCHIVED}

DAILY == "DAILY"
WEEKLY == "WEEKLY"
CUSTOM == "CUSTOM"
HabitFrequencyType == {DAILY, WEEKLY, CUSTOM}

(* frequencyDetails is a JSON object; a field the object lacks is written   *)
(* here as NULL (time), {} (days), 0 (count) or "undefined" (unit), each of *)
(* which the validator treats exactly as the missing field.                 *)
Details(time, days, count, unit) ==
    [time |-> time, days |-> days, count |-> count, unit |-> unit]

Rule(type, details) == [frequencyType |-> type, frequencyDetails |-> details]

\* The rules callers submit: one of each kind, and a WEEKLY rule without days.
RuleInputs ==
    { Rule(DAILY, Details(7, {}, 0, "undefined")),
      Rule(WEEKLY, Details(8, {1, 3, 5}, 0, "undefined")),
      Rule(CUSTOM, Details(9, {}, 2, "days")),
      Rule(WEEKLY, Details(7, {}, 0, "undefined")) }

-----------------------------------------------------------------------------
(* JavaScript Date arithmetic, in hours *)

LocalDay(t) == (t + tz) \div HoursPerDay

\* new Date(t).setHours(h, 0, 0, 0)
SetHours(t, h) == LocalDay(t) * HoursPerDay + h - tz

\* d.setDate(d.getDate() + n)
AddDays(t, n) == t + n * HoursPerDay

\* d.getDay(): 0 = Sunday; day 0 of the epoch was a Thursday
GetDay(t) == (LocalDay(t) + 4) % DaysPerWeek

\* new Date("YYYY-MM-DD"): midnight UTC of calendar day d
ParseDate(d) == d * HoursPerDay

\* d.toISOString().split('T')[0]
ToISODate(t) == t \div HoursPerDay

\* new Date(c.scheduledFor).setHours(0, 0, 0, 0) on a date column read back:
\* the column comes back as the string YYYY-MM-DD of the day stored
ReadDate(scheduledFor) == SetHours(ParseDate(scheduledFor), 0)

\* a Date written to a column of type date keeps its local calendar day
DateColumn(t) == LocalDay(t)

-----------------------------------------------------------------------------
(* HabitValidationService *)

isValidTimeFormat(time) == time \in 0..23

validateDailyFrequency(details) ==
    IF details.time = NULL THEN "Time is required for daily habits"
    ELSE IF ~isValidTimeFormat(details.time) THEN "Time must be in HH:mm format"
    ELSE "ok"

validateWeeklyFrequency(details) ==
    IF details.days = {} THEN "At least one day must be selected for weekly habits"
    ELSE IF \E day \in details.days : day < 0 \/ day > 6
        THEN "Days must be numbers between 0 (Sunday) and 6 (Saturday)"
    ELSE IF details.time = NULL THEN "Time is required for weekly habits"
    ELSE IF ~isValidTimeFormat(details.time) THEN "Time must be in HH:mm format"
    ELSE "ok"

validateCustomFrequency(details) ==
    IF details.count = 0 THEN "Count is required for custom habits"
    ELSE IF details.count < 1 \/ details.count > 365 THEN "Count must be between 1 and 365"
    ELSE IF details.unit \notin {"days", "weeks"} THEN "Unit must be days or weeks"
    ELSE IF details.time = NULL THEN "Time is required for custom habits"
    ELSE IF ~isValidTimeFormat(details.time) THEN "Time must be in HH:mm format"
    ELSE "ok"

validateFrequency(type, details) ==
    IF details = NoDetails THEN "Frequency details are required"
    ELSE IF type = DAILY THEN validateDailyFrequency(details)
    ELSE IF type = WEEKLY THEN validateWeeklyFrequency(details)
    ELSE IF type = CUSTOM THEN validateCustomFrequency(details)
    ELSE "Invalid frequency type"

-----------------------------------------------------------------------------
(* HabitScheduleService *)

\* today's slot taken even when the clock is already on it
getNextDailyOccurrence_NotStrict(details, t) ==
    LET today == SetHours(t, details.time)
    IN  IF today >= t THEN today ELSE AddDays(today, 1)

getNextDailyOccurrence(details, t) ==
    LET today == SetHours(t, details.time)
    IN  IF today > t THEN today ELSE AddDays(today, 1)

\* today's slot never taken: the scan starts at the days after today
getNextWeeklyOccurrence_SkipsToday(details, t) ==
    LET currentDay == GetDay(t)
        later == {day \in details.days : day > currentDay}
        Min(S) == CHOOSE x \in S : \A y \in S : x <= y
    IN  IF later # {}
        THEN SetHours(AddDays(t, Min(later) - currentDay), details.time)
        ELSE SetHours(AddDays(t, DaysPerWeek - currentDay + Min(details.days)),
                      details.time)

getNextWeeklyOccurrence(details, t) ==
    LET currentDay == GetDay(t)
        todayScheduled == SetHours(t, details.time)
        later == {day \in details.days : day > currentDay}
        Min(S) == CHOOSE x \in S : \A y \in S : x <= y
    IN  IF currentDay \in details.days /\ todayScheduled > t THEN todayScheduled
        ELSE IF later # {}
            THEN SetHours(AddDays(t, Min(later) - currentDay), details.time)
        ELSE SetHours(AddDays(t, DaysPerWeek - currentDay + Min(details.days)),
                      details.time)

RECURSIVE CustomAdvance(_, _, _)
CustomAdvance(nextOccurrence, t, intervalDays) ==
    IF nextOccurrence <= t
    THEN CustomAdvance(AddDays(nextOccurrence, intervalDays), t, intervalDays)
    ELSE nextOccurrence

IntervalDays(details) ==
    IF details.unit = "weeks" THEN details.count * DaysPerWeek ELSE details.count

\* a recomputation that starts from the clock instead of the stored anchor
getNextCustomOccurrence_FromNow(habit, t) ==
    LET details == habit.frequencyDetails
    IN  CustomAdvance(SetHours(t, details.time), t, IntervalDays(details))

getNextCustomOccurrence(habit, t) ==
    LET details == habit.frequencyDetails
        startDate == IF habit.nextOccurrenceAt # NULL
                     THEN habit.nextOccurrenceAt ELSE habit.createdAt
    IN  CustomAdvance(SetHours(startDate, details.time), t, IntervalDays(details))

getNextOccurrence(habit, t) ==
    IF habit.status # ACTIVE THEN NULL
    ELSE IF habit.frequencyType = DAILY
        THEN getNextDailyOccurrence(habit.frequencyDetails, t)
    ELSE IF habit.frequencyType = WEEKLY
        THEN getNextWeeklyOccurrence(habit.frequencyDetails, t)
    ELSE IF habit.frequencyType = CUSTOM
        THEN getNextCustomOccurrence(habit, t)
    ELSE NULL

isCustomScheduledForDate(habit, date) ==
    LET startDate == SetHours(habit.createdAt, 0)
        checkDate == SetHours(date, 0)
        daysDiff == (checkDate - startDate) \div HoursPerDay
    IN  daysDiff >= 0 /\ daysDiff % IntervalDays(habit.frequencyDetails) = 0

isScheduledForDate(habit, date) ==
    IF habit.status # ACTIVE THEN FALSE
    ELSE IF habit.frequencyType = DAILY THEN TRUE
    ELSE IF habit.frequencyType = WEEKLY
        THEN GetDay(date) \in habit.frequencyDetails.days
    ELSE IF habit.frequencyType = CUSTOM THEN isCustomScheduledForDate(habit, date)
    ELSE FALSE

-----------------------------------------------------------------------------
(* HabitRepository: the rows of table habits, keyed by id *)

HabitFindById(hs, habitId) ==
    IF habitId \in DOMAIN hs /\ hs[habitId].deletedAt = NULL
    THEN hs[habitId] ELSE NoRow

\* a lookup that forgets the soft-delete mark
HabitFindByIdAndUser_Deleted(hs, habitId, userId) ==
    IF habitId \in DOMAIN hs /\ hs[habitId].userId = userId
    THEN hs[habitId] ELSE NoRow

\* a lookup by id alone
HabitFindByIdAndUser_AnyUser(hs, habitId, userId) ==
    IF habitId \in DOMAIN hs /\ hs[habitId].deletedAt = NULL
    THEN hs[habitId] ELSE NoRow

HabitFindByIdAndUser(hs, habitId, userId) ==
    IF habitId \in DOMAIN hs /\ hs[habitId].userId = userId
       /\ hs[habitId].deletedAt = NULL
    THEN hs[habitId] ELSE NoRow

\* an update that never reaches the row
HabitSetNext_Lost(hs, habitId, nextOccurrenceAt) == hs

\* repository.update(habitId, {nextOccurrenceAt}): the row is addressed by id alone
HabitSetNext(hs, habitId, nextOccurrenceAt) ==
    IF habitId \in DOMAIN hs
    THEN [hs EXCEPT ![habitId].nextOccurrenceAt = nextOccurrenceAt] ELSE hs

HabitSetStatus(hs, habitId, status, nextOccurrenceAt) ==
    IF habitId \in DOMAIN hs
    THEN [hs EXCEPT ![habitId].status = status,
                    ![habitId].nextOccurrenceAt = nextOccurrenceAt]
    ELSE hs

\* habit i of a user is "h" followed by i, and the habits' names sort as
\* their numbers do
HabitId(i) == "h" \o ToString(i)

NameRank(habitId) == CHOOSE i \in 1..MaxTodayHabits : HabitId(i) = habitId

\* orderBy nextOccurrenceAt ASC NULLS LAST, then name ASC
HabitBefore(hs, g, h) ==
    LET a == hs[g].nextOccurrenceAt
        b == hs[h].nextOccurrenceAt
    IN  IF a # b THEN a # NULL /\ (b = NULL \/ a < b)
        ELSE NameRank(g) < NameRank(h)

\* findByUser(userId, {status, pageSize}): the ids of the user's rows that
\* are not deleted, of the given status when one is given; page 1 of them,
\* that is the first pageSize in the order above
HabitFindByUser(hs, userId, status, pageSize) ==
    LET found == {h \in DOMAIN hs : /\ hs[h].userId = userId
                                   /\ hs[h].deletedAt = NULL
                                   /\ (status # "undefined" => hs[h].status = status)}
    IN  IF Cardinality(found) <= pageSize THEN found
        ELSE {h \in found :
                 Cardinality({g \in found : HabitBefore(hs, g, h)}) < pageSize}

HabitInsert(hs, habitId, row) ==
    [h \in DOMAIN hs \cup {habitId} |-> IF h = habitId THEN row ELSE hs[h]]

-----------------------------------------------------------------------------
(* HabitCompletionRepository: the rows of table habit_completions; a row's *)
(* id is its position                                                      *)

\* a lookup that counts undone completions too
isCompletedForDate_CountsUndone(cs, habitId, date) ==
    \E c \in DOMAIN cs :
        /\ cs[c].habitId = habitId
        /\ cs[c].scheduledFor = DateColumn(date)

\* a lookup that compares the stored day with the UTC day of the instant
isCompletedForDate_UtcDay(cs, habitId, date) ==
    \E c \in DOMAIN cs :
        /\ cs[c].habitId = habitId
        /\ cs[c].scheduledFor = ToISODate(date)
        /\ cs[c].undoneAt = NULL

CompletionFindByIdAndUser(cs, completionId, userId) ==
    IF completionId \in DOMAIN cs /\ cs[completionId].userId = userId
    THEN cs[completionId] ELSE NoRow

isCompletedForDate(cs, habitId, date) ==
    \E id \in DOMAIN cs :
        /\ cs[id].habitId = habitId
        /\ cs[id].scheduledFor = DateColumn(date)
        /\ cs[id].undoneAt = NULL

\* findByHabit: the ids of the habit's completions by the user, undone ones left out
CompletionFindByHabit(cs, habitId, userId) ==
    {c \in DOMAIN cs : /\ cs[c].habitId = habitId
                       /\ cs[c].userId = userId
                       /\ cs[c].undoneAt = NULL}

\* findByUserAndDate
CompletionFindByUserAndDate(cs, userId, date) ==
    {c \in DOMAIN cs : /\ cs[c].userId = userId
                       /\ cs[c].scheduledFor = DateColumn(date)
                       /\ cs[c].undoneAt = NULL}

\* a count that takes undone completions in
getCompletionCount_CountsUndone(cs, habitId) ==
    Cardinality({c \in DOMAIN cs : cs[c].habitId = habitId})

getCompletionCount(cs, habitId) ==
    Cardinality({c \in DOMAIN cs : cs[c].habitId = habitId /\ cs[c].undoneAt = NULL})

\* the ids of the rows getCompletionsForStreak returns
getCompletionsForStreak(cs, habitId) ==
    {c \in DOMAIN cs : cs[c].habitId = habitId /\ cs[c].undoneAt = NULL}

CompletionCreate(cs, row) == Append(cs, row)

\* an undo that deletes the row
markUndone_Removes(cs, completionId, t) ==
    IF completionId \in DOMAIN cs
    THEN SubSeq(cs, 1, completionId - 1) \o SubSeq(cs, completionId + 1, Len(cs))
    ELSE cs

markUndone(cs, completionId, t) ==
    IF completionId \in DOMAIN cs
    THEN [cs EXCEPT ![completionId].undoneAt = t] ELSE cs

-----------------------------------------------------------------------------
(* HabitStreakService *)

\* completions.sort(...): the stored days of the rows, latest first
RECURSIVE SortDescending(_, _)
SortDescending(cs, ids) ==
    IF ids = {} THEN << >>
    ELSE LET c == CHOOSE x \in ids :
                     \A y \in ids : cs[x].scheduledFor >= cs[y].scheduledFor
         IN  <<cs[c].scheduledFor>> \o SortDescending(cs, ids \ {c})

Reverse(seq) == [i \in 1..Len(seq) |-> seq[Len(seq) + 1 - i]]

\* the for loop of calculateCurrentStreak from completion i on, and the
\* while loop inside it
RECURSIVE CountBack(_, _, _, _, _)
RECURSIVE ScanBack(_, _, _, _, _, _)
CountBack(habit, sorted, i, currentDate, streak) ==
    IF i > Len(sorted) THEN streak
    ELSE ScanBack(habit, sorted, i, currentDate, ReadDate(sorted[i]), streak)

ScanBack(habit, sorted, i, currentDate, completionDate, streak) ==
    IF currentDate < completionDate
    THEN CountBack(habit, sorted, i + 1, currentDate, streak)
    ELSE IF isScheduledForDate(habit, currentDate)
        THEN IF currentDate = completionDate
             THEN CountBack(habit, sorted, i + 1, AddDays(currentDate, -1), streak + 1)
             ELSE streak
    ELSE ScanBack(habit, sorted, i, AddDays(currentDate, -1), completionDate, streak)

calculateCurrentStreak(habitId, userId) ==
    LET habit == HabitFindByIdAndUser(habits, habitId, userId)
        ids == getCompletionsForStreak(completions, habitId)
        sorted == SortDescending(completions, ids)
        today == SetHours(now, 0)
        todayScheduled == isScheduledForDate(habit, today)
        todayCompleted == \E i \in 1..Len(sorted) : ReadDate(sorted[i]) = today
        currentDate == IF todayScheduled /\ ~todayCompleted
                       THEN AddDays(today, -1) ELSE today
    IN  IF habit = NoRow THEN 0
        ELSE IF ids = {} THEN 0
        ELSE CountBack(habit, sorted, 1, currentDate, 0)

Max(a, b) == IF a >= b THEN a ELSE b

\* for (let i = 1; i <= 7; i++): the first scheduled day after lastScheduledDate
\* within a week, NULL when there is none
NextExpected(habit, lastScheduledDate) ==
    LET hits == {i \in 1..DaysPerWeek :
                    isScheduledForDate(habit, AddDays(lastScheduledDate, i))}
    IN  IF hits = {} THEN NULL
        ELSE AddDays(lastScheduledDate, CHOOSE i \in hits : \A j \in hits : i <= j)

\* the for loop of calculateLongestStreak from completion i on
RECURSIVE CountRuns(_, _, _, _, _, _)
CountRuns(habit, sorted, i, lastScheduledDate, longestStreak, currentStreak) ==
    IF i > Len(sorted) THEN Max(longestStreak, currentStreak)
    ELSE LET completionDate == ReadDate(sorted[i])
         IN  IF lastScheduledDate = NULL
             THEN CountRuns(habit, sorted, i + 1, completionDate, longestStreak, 1)
             ELSE IF NextExpected(habit, lastScheduledDate) = completionDate
             THEN CountRuns(habit, sorted, i + 1, completionDate, longestStreak,
                            currentStreak + 1)
             ELSE CountRuns(habit, sorted, i + 1, completionDate,
                            Max(longestStreak, currentStreak), 1)

calculateLongestStreak(habitId, userId) ==
    LET habit == HabitFindByIdAndUser(habits, habitId, userId)
        ids == getCompletionsForStreak(completions, habitId)
        sorted == Reverse(SortDescending(completions, ids))
    IN  IF habit = NoRow THEN 0
        ELSE IF ids = {} THEN 0
        ELSE CountRuns(habit, sorted, 1, NULL, 0, 0)

getStreakSummary(habitId, userId) ==
    [currentStreak |-> calculateCurrentStreak(habitId, userId),
     longestStreak |-> calculateLongestStreak(habitId, userId),
     totalCompletions |-> getCompletionCount(completions, habitId)]

-----------------------------------------------------------------------------
(* What a handler does: the tables it leaves, the exception it throws      *)
(* ("none": it returns value), and the events it publishes.                *)

Outcome(hs, cs, error, message, value, events) ==
    [habits |-> hs, completions |-> cs, error |-> error, message |-> message,
     value |-> value, emitted |-> events]

Return(hs, cs, value, events) == Outcome(hs, cs, "none", "", value, events)

Throw(exception, message) ==
    Outcome(habits, completions, exception, message, NoRow, << >>)

NotFoundException == "NotFoundException"
BadRequestException == "BadRequestException"
ConflictException == "ConflictException"

Idle == [pc |-> "idle"]

-----------------------------------------------------------------------------
(* HabitService *)

createHabit(userId, dto, habitId) ==
    LET check == validateFrequency(dto.frequencyType, dto.frequencyDetails)
        habit == [userId |-> userId,
                  frequencyType |-> dto.frequencyType,
                  frequencyDetails |-> dto.frequencyDetails,
                  status |-> ACTIVE,
                  nextOccurrenceAt |-> NULL,
                  createdAt |-> now,
                  deletedAt |-> NULL]
        nextOccurrence == getNextOccurrence(habit, now)
        saved == HabitInsert(habits, habitId, habit)
        final == IF nextOccurrence # NULL
                 THEN HabitSetNext(saved, habitId, nextOccurrence) ELSE saved
    IN  IF check # "ok" THEN Throw(BadRequestException, check)
        ELSE Return(final, completions, final[habitId],
                    << [type |-> "habit.created", habitId |-> habitId,
                        userId |-> userId,
                        nextOccurrenceAt |-> final[habitId].nextOccurrenceAt] >>)

\* value: the ids of the habits listed
getUserHabits(userId, status) ==
    Return(habits, completions,
           HabitFindByUser(habits, userId, status, DEFAULT_PAGE_SIZE), << >>)

getHabitById(userId, habitId) ==
    LET habit == HabitFindByIdAndUser(habits, habitId, userId)
    IN  IF habit = NoRow THEN Throw(NotFoundException, "Habit not found")
        ELSE Return(habits, completions, habit, << >>)

\* updates: Partial<Habit> built from the dto, applied by repository.update
ApplyUpdates(hs, habitId, dto) ==
    LET old == hs[habitId]
    IN  [hs EXCEPT ![habitId] =
            [old EXCEPT
                !.frequencyType = IF dto.frequencyType # "undefined"
                                  THEN dto.frequencyType ELSE old.frequencyType,
                !.frequencyDetails = IF dto.frequencyDetails # NoDetails
                                     THEN dto.frequencyDetails ELSE old.frequencyDetails,
                !.status = IF dto.status # "undefined"
                           THEN dto.status ELSE old.status]]

\* the next occurrence taken from the habit as it was read, old rule and all
updateHabit_OldRule(userId, habitId, dto) ==
    LET habit == HabitFindByIdAndUser(habits, habitId, userId)
        frequencyChanged ==
            dto.frequencyType # "undefined" \/ dto.frequencyDetails # NoDetails
        type == IF dto.frequencyType # "undefined"
                THEN dto.frequencyType ELSE habit.frequencyType
        details == IF dto.frequencyDetails # NoDetails
                   THEN dto.frequencyDetails ELSE habit.frequencyDetails
        check == IF frequencyChanged THEN validateFrequency(type, details) ELSE "ok"
        applied == ApplyUpdates(habits, habitId, dto)
        updatedHabit == HabitFindById(applied, habitId)
        final == IF frequencyChanged /\ updatedHabit.status = ACTIVE
                 THEN HabitSetNext(applied, habitId,
                                   getNextOccurrence([habit EXCEPT !.status = ACTIVE], now))
                 ELSE applied
        finalHabit == HabitFindById(final, habitId)
    IN  IF habit = NoRow THEN Throw(NotFoundException, "Habit not found")
        ELSE IF check # "ok" THEN Throw(BadRequestException, check)
        ELSE Return(final, completions, finalHabit,
                    << [type |-> "habit.updated", habitId |-> habitId,
                        userId |-> userId,
                        oldFrequency |-> Rule(habit.frequencyType, habit.frequencyDetails),
                        newFrequency |-> Rule(finalHabit.frequencyType,
                                              finalHabit.frequencyDetails)] >>)

updateHabit(userId, habitId, dto) ==
    LET habit == HabitFindByIdAndUser(habits, habitId, userId)
        frequencyChanged ==
            dto.frequencyType # "undefined" \/ dto.frequencyDetails # NoDetails
        type == IF dto.frequencyType # "undefined"
                THEN dto.frequencyType ELSE habit.frequencyType
        details == IF dto.frequencyDetails # NoDetails
                   THEN dto.frequencyDetails ELSE habit.frequencyDetails
        check == IF frequencyChanged THEN validateFrequency(type, details) ELSE "ok"
        applied == ApplyUpdates(habits, habitId, dto)
        updatedHabit == HabitFindById(applied, habitId)
        final == IF frequencyChanged /\ updatedHabit.status = ACTIVE
                 THEN HabitSetNext(applied, habitId, getNextOccurrence(updatedHabit, now))
                 ELSE applied
        finalHabit == HabitFindById(final, habitId)
    IN  IF habit = NoRow THEN Throw(NotFoundException, "Habit not found")
        ELSE IF check # "ok" THEN Throw(BadRequestException, check)
        ELSE Return(final, completions, finalHabit,
                    << [type |-> "habit.updated", habitId |-> habitId,
                        userId |-> userId,
                        oldFrequency |-> Rule(habit.frequencyType, habit.frequencyDetails),
                        newFrequency |-> Rule(finalHabit.frequencyType,
                                              finalHabit.frequencyDetails)] >>)

\* a delete that tells nobody
deleteHabit_Silent(userId, habitId) ==
    LET habit == HabitFindByIdAndUser(habits, habitId, userId)
    IN  IF habit = NoRow THEN Throw(NotFoundException, "Habit not found")
        ELSE Return([habits EXCEPT ![habitId].deletedAt = now], completions, NoRow,
                    << >>)

deleteHabit(userId, habitId) ==
    LET habit == HabitFindByIdAndUser(habits, habitId, userId)
    IN  IF habit = NoRow THEN Throw(NotFoundException, "Habit not found")
        ELSE Return([habits EXCEPT ![habitId].deletedAt = now], completions, NoRow,
                    << [type |-> "habit.deleted", habitId |-> habitId,
                        userId |-> userId] >>)

\* the early returns of pauseHabit and resumeHabit left out
AlreadyPaused_Never(habit) == FALSE

AlreadyActive_Never(habit) == FALSE

\* habit.status === HabitStatus.PAUSED: pauseHabit returns the habit it read
AlreadyPaused(habit) == habit.status = PAUSED

\* habit.status === HabitStatus.ACTIVE: resumeHabit returns the habit it read
AlreadyActive(habit) == habit.status = ACTIVE

pauseHabit(userId, habitId) ==
    LET habit == HabitFindByIdAndUser(habits, habitId, userId)
        final == HabitSetStatus(habits, habitId, PAUSED, NULL)
    IN  IF habit = NoRow THEN Throw(NotFoundException, "Habit not found")
        ELSE IF AlreadyPaused(habit) THEN Return(habits, completions, habit, << >>)
        ELSE IF habit.status = ARCHIVED
            THEN Throw(ConflictException, "Cannot pause an archived habit")
        ELSE Return(final, completions, HabitFindById(final, habitId), << >>)

resumeHabit(userId, habitId) ==
    LET habit == HabitFindByIdAndUser(habits, habitId, userId)
        nextOccurrence == getNextOccurrence(habit, now)
        final == HabitSetStatus(habits, habitId, ACTIVE, nextOccurrence)
    IN  IF habit = NoRow THEN Throw(NotFoundException, "Habit not found")
        ELSE IF AlreadyActive(habit) THEN Return(habits, completions, habit, << >>)
        ELSE IF habit.status = ARCHIVED
            THEN Throw(ConflictException, "Cannot resume an archived habit")
        ELSE Return(final, completions, HabitFindById(final, habitId), << >>)

-----------------------------------------------------------------------------
(* HabitCompletionService *)

\* a status check that forgets ARCHIVED
NotCompletable_PausedOnly(habit) == habit.status = PAUSED

\* habit.status !== HabitStatus.ACTIVE
NotCompletable(habit) == habit.status # ACTIVE

\* scheduledDate > today, both cut to local midnight by setHours(0, 0, 0, 0)
IsFutureDate(scheduledFor, t) == SetHours(scheduledFor, 0) > SetHours(t, 0)

\* the undone check left out
AlreadyUndone_Never(completion) == FALSE

\* a window that closes at the limit instead of after it
UndoWindowExceeded_AtLimit(completedAt, t) == t - completedAt >= UNDO_WINDOW_HOURS

\* completion.undoneAt is set
AlreadyUndone(completion) == completion.undoneAt # NULL

UndoWindowExceeded(completedAt, t) == t - completedAt > UNDO_WINDOW_HOURS

NewCompletion(habitId, userId, scheduledFor, t) ==
    [habitId |-> habitId, userId |-> userId, completedAt |-> t,
     scheduledFor |-> DateColumn(scheduledFor), undoneAt |-> NULL]

\* the date checked before the status
markComplete_DateFirst(habitId, userId, day) ==
    LET habit == HabitFindByIdAndUser(habits, habitId, userId)
        scheduledFor == ParseDate(day)
        completion == NewCompletion(habitId, userId, scheduledFor, now)
        nextOccurrence == getNextOccurrence(habit, now)
    IN  IF habit = NoRow THEN Throw(NotFoundException, "Habit not found")
        ELSE IF IsFutureDate(scheduledFor, now)
            THEN Throw(BadRequestException, "Cannot complete a habit for a future date")
        ELSE IF NotCompletable(habit)
            THEN Throw(BadRequestException, "Cannot complete a paused or archived habit")
        ELSE IF isCompletedForDate(completions, habitId, scheduledFor)
            THEN Throw(ConflictException, "Habit already completed for this date")
        ELSE Return(IF nextOccurrence # NULL
                    THEN HabitSetNext(habits, habitId, nextOccurrence) ELSE habits,
                    CompletionCreate(completions, completion),
                    completion,
                    << [type |-> "habit.completed", habitId |-> habitId,
                        userId |-> userId,
                        completionId |-> Len(completions) + 1] >>)

\* day: the calendar day the dto's scheduledFor string names
markComplete(habitId, userId, day) ==
    LET habit == HabitFindByIdAndUser(habits, habitId, userId)
        scheduledFor == ParseDate(day)
        completion == NewCompletion(habitId, userId, scheduledFor, now)
        nextOccurrence == getNextOccurrence(habit, now)
    IN  IF habit = NoRow THEN Throw(NotFoundException, "Habit not found")
        ELSE IF NotCompletable(habit)
            THEN Throw(BadRequestException, "Cannot complete a paused or archived habit")
        ELSE IF IsFutureDate(scheduledFor, now)
            THEN Throw(BadRequestException, "Cannot complete a habit for a future date")
        ELSE IF isCompletedForDate(completions, habitId, scheduledFor)
            THEN Throw(ConflictException, "Habit already completed for this date")
        ELSE Return(IF nextOccurrence # NULL
                    THEN HabitSetNext(habits, habitId, nextOccurrence) ELSE habits,
                    CompletionCreate(completions, completion),
                    completion,
                    << [type |-> "habit.completed", habitId |-> habitId,
                        userId |-> userId,
                        completionId |-> Len(completions) + 1] >>)

undoCompletion(completionId, userId) ==
    LET completion == CompletionFindByIdAndUser(completions, completionId, userId)
    IN  IF completion = NoRow THEN Throw(NotFoundException, "Completion not found")
        ELSE IF AlreadyUndone(completion)
            THEN Throw(BadRequestException, "Completion already undone")
        ELSE IF UndoWindowExceeded(completion.completedAt, now)
            THEN Throw(BadRequestException, "Cannot undo completion after 24 hours")
        ELSE Return(habits, markUndone(completions, completionId, now), NoRow,
                    << [type |-> "habit.completion_undone",
                        completionId |-> completionId,
                        habitId |-> completion.habitId,
                        userId |-> userId] >>)

getCompletionsByHabit(habitId, userId) ==
    LET habit == HabitFindByIdAndUser(habits, habitId, userId)
    IN  IF habit = NoRow THEN Throw(NotFoundException, "Habit not found")
        ELSE Return(habits, completions,
                    CompletionFindByHabit(completions, habitId, userId), << >>)

\* value: one entry per ACTIVE habit of the user scheduled today
getTodayScheduledHabits(userId) ==
    LET today == SetHours(now, 0)
        listed == HabitFindByUser(habits, userId, ACTIVE, TODAY_PAGE_SIZE)
        done == CompletionFindByUserAndDate(completions, userId, today)
        Entry(h) ==
            [habitId |-> h,
             status |-> IF \E c \in done : completions[c].habitId = h
                        THEN "completed"
                        ELSE IF habits[h].nextOccurrenceAt # NULL
                                /\ habits[h].nextOccurrenceAt < now
                        THEN "overdue" ELSE "pending"]
    IN  Return(habits, completions,
               {Entry(h) : h \in {x \in listed : isScheduledForDate(habits[x], today)}},
               << >>)

-----------------------------------------------------------------------------
(* State after construction: empty tables, no call in flight *)

Init ==
    /\ now = StartInstant
    /\ tz \in TzOffsets
    /\ habits = << >>
    /\ completions = << >>
    /\ calls = [p \in Procs |-> Idle]

\* Time passes between requests.
Tick ==
    /\ \E d \in TickSteps :
          /\ now + d - StartInstant <= MaxElapsed
          /\ now' = now + d
    /\ UNCHANGED <<tz, habits, completions, calls>>

-----------------------------------------------------------------------------
(* One request handled from start to end, no other request in between *)

Apply(o) ==
    /\ habits' = o.habits
    /\ completions' = o.completions
    /\ UNCHANGED <<now, tz, calls>>

CreateHabit(userId, dto) ==
    \E habitId \in HabitIds \ DOMAIN habits : Apply(createHabit(userId, dto, habitId))

UpdateHabit(userId, habitId, dto) == Apply(updateHabit(userId, habitId, dto))

DeleteHabit(userId, habitId) == Apply(deleteHabit(userId, habitId))

PauseHabit(userId, habitId) == Apply(pauseHabit(userId, habitId))

ResumeHabit(userId, habitId) == Apply(resumeHabit(userId, habitId))

MarkComplete(habitId, userId, day) ==
    /\ Len(completions) < MaxCompletions
    /\ Apply(markComplete(habitId, userId, day))

UndoCompletion(completionId, userId) == Apply(undoCompletion(completionId, userId))

\* The calendar days callers submit: today and tomorrow on the server's calendar.
DateInputs == {LocalDay(now), LocalDay(now) + 1}

\* The fields of UpdateHabitDto that reach the schedule; a dto with none of
\* them set is an update of the name, the description or the duration alone.
UpdateDto(type, details, status) ==
    [frequencyType |-> type, frequencyDetails |-> details, status |-> status]

UpdateDtos ==
    {UpdateDto("undefined", NoDetails, st) : st \in HabitStatus \cup {"undefined"}}
    \cup {UpdateDto(r.frequencyType, r.frequencyDetails, "undefined") : r \in RuleInputs}

Next ==
    \/ Tick
    \/ \E u \in Owners, r \in RuleInputs : CreateHabit(u, r)
    \/ \E u \in Users, h \in HabitIds, dto \in UpdateDtos : UpdateHabit(u, h, dto)
    \/ \E u \in Users, h \in HabitIds : DeleteHabit(u, h)
    \/ \E u \in Users, h \in HabitIds : PauseHabit(u, h)
    \/ \E u \in Users, h \in HabitIds : ResumeHabit(u, h)
    \/ \E u \in Users, h \in HabitIds, d \in DateInputs : MarkComplete(h, u, d)
    \/ \E u \in Users, c \in 1..MaxCompletions : UndoCompletion(c, u)

Spec == Init /\ [][Next]_vars

-----------------------------------------------------------------------------
(* markComplete as the event loop runs it: the handler gives up control at  *)
(* each await, so a call is a chain of steps, one per repository query,    *)
(* and steps of other calls may run between two of them.                   *)

Done(call, error, message) ==
    [pc |-> "done", habitId |-> call.habitId, userId |-> call.userId,
     day |-> call.day, error |-> error, message |-> message]

\* await habitRepository.findByIdAndUser, then the checks on its answer
McStart(p, habitId, userId, day) ==
    LET call == [habitId |-> habitId, userId |-> userId, day |-> day]
        habit == HabitFindByIdAndUser(habits, habitId, userId)
    IN
    /\ calls[p] = Idle
    /\ calls' = [calls EXCEPT ![p] =
          IF habit = NoRow
          THEN Done(call, NotFoundException, "Habit not found")
          ELSE IF NotCompletable(habit)
          THEN Done(call, BadRequestException,
                    "Cannot complete a paused or archived habit")
          ELSE IF IsFutureDate(ParseDate(day), now)
          THEN Done(call, BadRequestException,
                    "Cannot complete a habit for a future date")
          ELSE [pc |-> "isCompleted", habitId |-> habitId, userId |-> userId,
                day |-> day, habit |-> habit]]
    /\ UNCHANGED <<now, tz, habits, completions>>

\* await completionRepository.isCompletedForDate
McCheck(p) ==
    LET call == calls[p]
    IN
    /\ call.pc = "isCompleted"
    /\ calls' = [calls EXCEPT ![p] =
          IF isCompletedForDate(completions, call.habitId, ParseDate(call.day))
          THEN Done(call, ConflictException, "Habit already completed for this date")
          ELSE [call EXCEPT !.pc = "create"]]
    /\ UNCHANGED <<now, tz, habits, completions>>

\* await completionRepository.create
McCreate(p) ==
    LET call == calls[p]
    IN
    /\ call.pc = "create"
    /\ Len(completions) < MaxCompletions
    /\ completions' = CompletionCreate(completions,
          NewCompletion(call.habitId, call.userId, ParseDate(call.day), now))
    /\ calls' = [calls EXCEPT ![p] = [call EXCEPT !.pc = "update"]]
    /\ UNCHANGED <<now, tz, habits>>

\* getNextOccurrence(habit) on the habit read at the start, await
\* habitRepository.update, publishHabitCompleted, return
McFinish(p) ==
    LET call == calls[p]
        nextOccurrence == getNextOccurrence(call.habit, now)
    IN
    /\ call.pc = "update"
    /\ habits' = IF nextOccurrence # NULL
                 THEN HabitSetNext(habits, call.habitId, nextOccurrence) ELSE habits
    /\ calls' = [calls EXCEPT ![p] = Done(call, "none", "")]
    /\ UNCHANGED <<now, tz, completions>>

\* the response leaves; the connection takes the next request
McRespond(p) ==
    /\ calls[p].pc = "done"
    /\ calls' = [calls EXCEPT ![p] = Idle]
    /\ UNCHANGED <<now, tz, habits, completions>>

NextConcurrent ==
    \/ \E u \in Owners, r \in RuleInputs : CreateHabit(u, r)
    \/ \E u \in Users, h \in HabitIds : PauseHabit(u, h)
    \/ \E u \in Users, h \in HabitIds : ResumeHabit(u, h)
    \/ \E u \in Users, c \in 1..MaxCompletions : UndoCompletion(c, u)
    \/ \E p \in Procs, u \in Users, h \in HabitIds, d \in DateInputs :
          McStart(p, h, u, d)
    \/ \E p \in Procs : McCheck(p)
    \/ \E p \in Procs : McCreate(p)
    \/ \E p \in Procs : McFinish(p)
    \/ \E p \in Procs : McRespond(p)

SpecConcurrent == Init /\ [][NextConcurrent]_vars

-----------------------------------------------------------------------------
(* The schedule service driven over four days of instants and a wider set  *)
(* of rules: habits are created and edited, and their next occurrence is   *)
(* recomputed and persisted as markComplete does, with no completion rows. *)

EngineHorizon == 96

EngineSteps == {17, 48}

EngineTimes == {0, 9, 23}

EngineDaySets == {{0}, {1, 3, 5}, {6}, {2, 4}}

EngineCounts == {1, 2, 3}

\* the rules of the three kinds that validateFrequency accepts
EngineRules ==
    {r \in {Rule(DAILY, Details(time, {}, 0, "undefined")) : time \in EngineTimes}
        \cup {Rule(WEEKLY, Details(time, days, 0, "undefined")) :
                 time \in EngineTimes, days \in EngineDaySets}
        \cup {Rule(CUSTOM, Details(time, {}, count, unit)) :
                 time \in EngineTimes, count \in EngineCounts,
                 unit \in {"days", "weeks"}} :
        validateFrequency(r.frequencyType, r.frequencyDetails) = "ok"}

EngineDtos == {UpdateDto(r.frequencyType, r.frequencyDetails, "undefined") :
                  r \in EngineRules}

EngineTick ==
    /\ \E d \in EngineSteps :
          /\ now + d - StartInstant <= EngineHorizon
          /\ now' = now + d
    /\ UNCHANGED <<tz, habits, completions, calls>>

\* markComplete's last write: getNextOccurrence(habit), persisted when not null
Reschedule(habitId, userId) ==
    LET habit == HabitFindByIdAndUser(habits, habitId, userId)
        nextOccurrence == getNextOccurrence(habit, now)
    IN
    /\ habit # NoRow
    /\ habit.status = ACTIVE
    /\ nextOccurrence # NULL
    /\ habits' = HabitSetNext(habits, habitId, nextOccurrence)
    /\ UNCHANGED <<now, tz, completions, calls>>

NextEngine ==
    \/ EngineTick
    \/ \E u \in Owners, r \in EngineRules : CreateHabit(u, r)
    \/ \E u \in Owners, h \in HabitIds, dto \in EngineDtos : UpdateHabit(u, h, dto)
    \/ \E u \in Owners, h \in HabitIds : Reschedule(h, u)

SpecEngine == Init /\ [][NextEngine]_vars

-----------------------------------------------------------------------------
(* Completions entered for today and for earlier days, over a few days of   *)
(* clock, so that runs of completed days build up for the streak service.  *)

MaxStreakRows == 3

StreakBack == 5

StreakHorizon == 24

\* the rules of RuleInputs that validateFrequency accepts
StreakRules ==
    {r \in RuleInputs : validateFrequency(r.frequencyType, r.frequencyDetails) = "ok"}

StreakDates == {LocalDay(now) - i : i \in 0..StreakBack}

StreakTick ==
    /\ now + HoursPerDay - StartInstant <= StreakHorizon
    /\ now' = now + HoursPerDay
    /\ UNCHANGED <<tz, habits, completions, calls>>

StreakComplete(habitId, userId, day) ==
    /\ Len(completions) < MaxStreakRows
    /\ Apply(markComplete(habitId, userId, day))

NextStreak ==
    \/ StreakTick
    \/ \E u \in Owners, r \in StreakRules : CreateHabit(u, r)
    \/ \E u \in Owners, h \in HabitIds, d \in StreakDates : StreakComplete(h, u, d)
    \/ \E u \in Owners, c \in 1..MaxStreakRows : UndoCompletion(c, u)

SpecStreak == Init /\ [][NextStreak]_vars

-----------------------------------------------------------------------------
(* Requests as the event loop runs them to their response.  A handler      *)
(* first runs its queries, then calls the publisher, then the response     *)
(* leaves; calls[p] keeps what the request on connection p has done so far *)
(* and, once answered, what its caller received.  A query may fail in the  *)
(* database, and a subscriber of the event emitter may throw.              *)

MaxRequestRows == 1

\* the rules and edits submitted: a DAILY rule and a WEEKLY rule without
\* days; a change of rule and the archiving of the habit
RequestRules ==
    { Rule(DAILY, Details(7, {}, 0, "undefined")),
      Rule(WEEKLY, Details(7, {}, 0, "undefined")) }

RequestDtos ==
    { UpdateDto(WEEKLY, Details(8, {1, 3, 5}, 0, "undefined"), "undefined"),
      UpdateDto("undefined", NoDetails, ARCHIVED) }

\* what TypeORM raises when a query fails in the database
QueryFailedError == "QueryFailedError"

\* whatever a subscriber of the event emitter throws
SubscriberError == "Error"

\* the handler has run its queries and is about to call the publisher
Publishing(op, target, events) ==
    [pc |-> "publish", op |-> op, target |-> target, events |-> events]

\* the handler has returned or thrown: error and message are what the
\* caller receives, published the events handed to the emitter, raised
\* whether a subscriber threw on one of them
Answered(op, target, error, message, published, raised) ==
    [pc |-> "done", op |-> op, target |-> target, error |-> error,
     message |-> message, published |-> published, raised |-> raised]

\* the handler up to the call of the publisher, or up to its throw
Persist(p, op, target, o) ==
    /\ calls[p] = Idle
    /\ habits' = o.habits
    /\ completions' = o.completions
    /\ calls' = [calls EXCEPT ![p] =
          IF o.error # "none"
          THEN Answered(op, target, o.error, o.message, << >>, FALSE)
          ELSE Publishing(op, target, o.emitted)]
    /\ UNCHANGED <<now, tz>>

\* eventEmitter.emit(...) and the return.  emit runs the subscribers before
\* it returns: one that throws either has its error caught by the wrapper
\* the subscriber was registered through, or lets it out of emit and so
\* out of the handler, which has no try around the call.
Publish(p) ==
    LET call == calls[p]
    IN
    /\ call.pc = "publish"
    /\ \E raises \in BOOLEAN, propagates \in BOOLEAN :
          LET raised == call.events # << >> /\ raises
          IN  calls' = [calls EXCEPT ![p] =
                 Answered(call.op, call.target,
                          IF raised /\ propagates THEN SubscriberError ELSE "none",
                          "", call.events, raised)]
    /\ UNCHANGED <<now, tz, habits, completions>>

RqCreateHabit(p, userId, dto) ==
    \E habitId \in HabitIds \ DOMAIN habits :
        Persist(p, "createHabit", habitId, createHabit(userId, dto, habitId))

RqUpdateHabit(p, userId, habitId, dto) ==
    Persist(p, "updateHabit", habitId, updateHabit(userId, habitId, dto))

RqDeleteHabit(p, userId, habitId) ==
    Persist(p, "deleteHabit", habitId, deleteHabit(userId, habitId))

RqPauseHabit(p, userId, habitId) ==
    Persist(p, "pauseHabit", habitId, pauseHabit(userId, habitId))

RqResumeHabit(p, userId, habitId) ==
    Persist(p, "resumeHabit", habitId, resumeHabit(userId, habitId))

RqMarkComplete(p, habitId, userId, day) ==
    LET o == markComplete(habitId, userId, day)
    IN
    /\ o.error = "none" => Len(completions) < MaxRequestRows
    /\ Persist(p, "markComplete", habitId, o)

\* undoCompletion: await completionRepository.findByIdAndUser, then the
\* checks on the row it answered
UcStart(p, completionId, userId) ==
    LET o == undoCompletion(completionId, userId)
    IN
    /\ calls[p] = Idle
    /\ calls' = [calls EXCEPT ![p] =
          IF o.error # "none"
          THEN Answered("undoCompletion", completionId, o.error, o.message,
                        << >>, FALSE)
          ELSE [pc |-> "markUndone", op |-> "undoCompletion",
                target |-> completionId, userId |-> userId,
                completion |-> completions[completionId]]]
    /\ UNCHANGED <<now, tz, habits, completions>>

\* undoCompletion: await completionRepository.markUndone
UcWrite(p) ==
    LET call == calls[p]
    IN
    /\ call.pc = "markUndone"
    /\ completions' = markUndone(completions, call.target, now)
    /\ calls' = [calls EXCEPT ![p] =
          Publishing("undoCompletion", call.target,
                     << [type |-> "habit.completion_undone",
                         completionId |-> call.target,
                         habitId |-> call.completion.habitId,
                         userId |-> call.userId] >>)]
    /\ UNCHANGED <<now, tz, habits>>

\* createHabit: habitRepository.create has inserted the row, then
\* habitRepository.update of nextOccurrenceAt fails and the handler throws
CreateHabitFault(p, userId, dto) ==
    \E habitId \in HabitIds \ DOMAIN habits :
        LET o == createHabit(userId, dto, habitId)
        IN
        /\ calls[p] = Idle
        /\ o.error = "none"
        /\ o.value.nextOccurrenceAt # NULL
        /\ habits' = HabitSetNext(o.habits, habitId, NULL)
        /\ calls' = [calls EXCEPT ![p] =
              Answered("createHabit", habitId, QueryFailedError, "", << >>, FALSE)]
        /\ UNCHANGED <<now, tz, completions>>

\* updateHabit: the first habitRepository.update has written the dto, then
\* the update of nextOccurrenceAt fails
UpdateHabitFault(p, userId, habitId, dto) ==
    LET o == updateHabit(userId, habitId, dto)
        applied == ApplyUpdates(habits, habitId, dto)
    IN
    /\ calls[p] = Idle
    /\ o.error = "none"
    /\ dto.frequencyType # "undefined" \/ dto.frequencyDetails # NoDetails
    /\ applied[habitId].status = ACTIVE
    /\ habits' = applied
    /\ calls' = [calls EXCEPT ![p] =
          Answered("updateHabit", habitId, QueryFailedError, "", << >>, FALSE)]
    /\ UNCHANGED <<now, tz, completions>>

\* markComplete: completionRepository.create has inserted the completion,
\* then habitRepository.update of nextOccurrenceAt fails
MarkCompleteFault(p, habitId, userId, day) ==
    LET o == markComplete(habitId, userId, day)
    IN
    /\ calls[p] = Idle
    /\ Len(completions) < MaxRequestRows
    /\ o.error = "none"
    /\ completions' = o.completions
    /\ calls' = [calls EXCEPT ![p] =
          Answered("markComplete", habitId, QueryFailedError, "", << >>, FALSE)]
    /\ UNCHANGED <<now, tz, habits>>

NextRequests ==
    \/ \E p \in Procs, u \in Owners, r \in RequestRules : RqCreateHabit(p, u, r)
    \/ \E p \in Procs, u \in Owners, h \in HabitIds, dto \in RequestDtos :
          RqUpdateHabit(p, u, h, dto)
    \/ \E p \in Procs, u \in Users, h \in HabitIds : RqDeleteHabit(p, u, h)
    \/ \E p \in Procs, u \in Owners, h \in HabitIds : RqPauseHabit(p, u, h)
    \/ \E p \in Procs, u \in Owners, h \in HabitIds : RqResumeHabit(p, u, h)
    \/ \E p \in Procs, u \in Owners, h \in HabitIds, d \in DateInputs :
          RqMarkComplete(p, h, u, d)
    \/ \E p \in Procs, u \in Owners, c \in 1..MaxRequestRows : UcStart(p, c, u)
    \/ \E p \in Procs : UcWrite(p)
    \/ \E p \in Procs : Publish(p)
    \/ \E p \in Procs, u \in Owners, r \in RequestRules : CreateHabitFault(p, u, r)
    \/ \E p \in Procs, u \in Owners, h \in HabitIds, dto \in RequestDtos :
          UpdateHabitFault(p, u, h, dto)
    \/ \E p \in Procs, u \in Owners, h \in HabitIds, d \in DateInputs :
          MarkCompleteFault(p, h, u, d)
    \/ \E p \in Procs : McRespond(p)

SpecRequests == Init /\ [][NextRequests]_vars

-----------------------------------------------------------------------------
(* validateFrequency called on rules good and bad: calls[p] keeps the rule *)
(* submitted on connection p and the message of the BadRequestException    *)
(* thrown, "ok" when none was.                                             *)

\* a time, none, and one the pattern HH:mm rejects
ValidationTimes == {NULL, 7, 24}

ValidationDaySets == {{}, {1, 3}, {7}}

ValidationCounts == {0, 2, 366}

ValidationUnits == {"undefined", "days", "months"}

ValidationInputs ==
    {Rule(type, Details(time, days, count, unit)) :
        type \in HabitFrequencyType, time \in ValidationTimes,
        days \in ValidationDaySets, count \in ValidationCounts,
        unit \in ValidationUnits}

Validate(p, dto) ==
    /\ calls[p] = Idle
    /\ calls' = [calls EXCEPT ![p] =
          [pc |-> "done", op |-> "validateFrequency", dto |-> dto,
           message |-> validateFrequency(dto.frequencyType, dto.frequencyDetails)]]
    /\ UNCHANGED <<now, tz, habits, completions>>

NextValidate ==
    \/ \E p \in Procs, dto \in ValidationInputs : Validate(p, dto)
    \/ \E p \in Procs : McRespond(p)

SpecValidate == Init /\ [][NextValidate]_vars

-----------------------------------------------------------------------------
(* A user with many habits.  The first few are of any rule and owner and   *)
(* are paused, deleted and completed; the rest are DAILY habits of the     *)
(* owner, created one after the other.                                     *)

TodayVaried == 1

TodayCreate(userId, dto) ==
    LET i == Cardinality(DOMAIN habits) + 1
    IN
    /\ i <= MaxTodayHabits
    /\ i > TodayVaried => userId \in Owners /\ dto.frequencyType = DAILY
    /\ Apply(createHabit(userId, dto, HabitId(i)))

TodayIds == {HabitId(i) : i \in 1..TodayVaried}

NextToday ==
    \/ \E u \in Users, r \in StreakRules : TodayCreate(u, r)
    \/ \E u \in Owners, h \in TodayIds : PauseHabit(u, h)
    \/ \E u \in Owners, h \in TodayIds : DeleteHabit(u, h)
    \/ \E u \in Owners, h \in TodayIds : MarkComplete(h, u, LocalDay(now))

SpecToday == Init /\ [][NextToday]_vars

-----------------------------------------------------------------------------
(* A CUSTOM habit whose interval is never edited, over the same four days:  *)
(* it is completed on the day of the call or the day before, paused and    *)
(* resumed, and its time of day is edited.                                 *)

MaxPhaseRows == 2

PhaseRules == {r \in EngineRules : r.frequencyType = CUSTOM}

PhaseDates == {LocalDay(now), LocalDay(now) - 1}

PhaseComplete(habitId, userId, day) ==
    /\ Len(completions) < MaxPhaseRows
    /\ Apply(markComplete(habitId, userId, day))

\* an update of frequencyDetails that keeps count and unit
PhaseEditTime(userId, habitId, time) ==
    /\ habitId \in DOMAIN habits
    /\ UpdateHabit(userId, habitId,
                   UpdateDto("undefined",
                             [habits[habitId].frequencyDetails EXCEPT !.time = time],
                             "undefined"))

NextPhase ==
    \/ EngineTick
    \/ \E u \in Owners, r \in PhaseRules : CreateHabit(u, r)
    \/ \E u \in Owners, h \in HabitIds, d \in PhaseDates : PhaseComplete(h, u, d)
    \/ \E u \in Owners, h \in HabitIds : PauseHabit(u, h)
    \/ \E u \in Owners, h \in HabitIds : ResumeHabit(u, h)
    \/ \E u \in Owners, h \in HabitIds, time \in EngineTimes : PhaseEditTime(u, h, time)

SpecPhase == Init /\ [][NextPhase]_vars

-----------------------------------------------------------------------------
(* Streaks over a longer stretch of clock: nine days, stepped by a day or   *)
(* by eight, with a rule whose occurrences lie more than a week apart;     *)
(* habits are completed for the day of the call.                           *)

LongHorizon == 216

LongSteps == {24, 192}

\* the rules of StreakRules, and a CUSTOM rule of eight days
LongRules == StreakRules \cup {Rule(CUSTOM, Details(7, {}, 8, "days"))}

LongTick ==
    /\ \E d \in LongSteps :
          /\ now + d - StartInstant <= LongHorizon
          /\ now' = now + d
    /\ UNCHANGED <<tz, habits, completions, calls>>

NextLong ==
    \/ LongTick
    \/ \E u \in Owners, r \in LongRules : CreateHabit(u, r)
    \/ \E u \in Owners, h \in HabitIds : StreakComplete(h, u, LocalDay(now))
    \/ \E u \in Owners, c \in 1..MaxStreakRows : UndoCompletion(c, u)

SpecLong == Init /\ [][NextLong]_vars

-----------------------------------------------------------------------------
(* updateHabit as the event loop runs it: one step per repository query.   *)
(* calls[p] keeps the dto, the habit the call read at its start and, later, *)
(* the row it read back after its write.                                   *)

\* the edits submitted: the kind with its parameters (to WEEKLY, back to
\* DAILY), and the parameters alone
EditDtos ==
    { UpdateDto(WEEKLY, Details(8, {1, 3, 5}, 0, "undefined"), "undefined"),
      UpdateDto(DAILY, Details(7, {}, 0, "undefined"), "undefined"),
      UpdateDto("undefined", Details(9, {}, 0, "undefined"), "undefined") }

\* what [...details.days] raises when the object has no days
TypeError == "TypeError"

\* await getHabitById, then validateFrequency on the dto's fields, the
\* habit's own standing in for those the dto lacks
UhStart(p, userId, habitId, dto) ==
    LET o == updateHabit(userId, habitId, dto)
    IN
    /\ calls[p] = Idle
    /\ calls' = [calls EXCEPT ![p] =
          IF o.error # "none"
          THEN Answered("updateHabit", habitId, o.error, o.message, << >>, FALSE)
          ELSE [pc |-> "apply", op |-> "updateHabit", target |-> habitId,
                userId |-> userId, dto |-> dto,
                habit |-> HabitFindByIdAndUser(habits, habitId, userId)]]
    /\ UNCHANGED <<now, tz, habits, completions>>

\* habitRepository.update(habitId, updates): await repository.update
UhApply(p) ==
    LET call == calls[p]
    IN
    /\ call.pc = "apply"
    /\ habits' = ApplyUpdates(habits, call.target, call.dto)
    /\ calls' = [calls EXCEPT ![p] = [call EXCEPT !.pc = "reread"]]
    /\ UNCHANGED <<now, tz, completions>>

\* habitRepository.update: await findById; then, the rule being in the dto
\* and the row read back ACTIVE, getNextOccurrence on that row
UhReread(p) ==
    LET call == calls[p]
        updatedHabit == HabitFindById(habits, call.target)
    IN
    /\ call.pc = "reread"
    /\ calls' = [calls EXCEPT ![p] =
          IF updatedHabit = NoRow
          THEN Answered("updateHabit", call.target, TypeError, "", << >>, FALSE)
          ELSE IF updatedHabit.status # ACTIVE
          THEN [pc |-> "final", op |-> "updateHabit", target |-> call.target,
                userId |-> call.userId, dto |-> call.dto, habit |-> call.habit]
          ELSE IF updatedHabit.frequencyType = WEEKLY
                  /\ updatedHabit.frequencyDetails.days = {}
          THEN Answered("updateHabit", call.target, TypeError, "", << >>, FALSE)
          ELSE [pc |-> "reschedule", op |-> "updateHabit", target |-> call.target,
                userId |-> call.userId, dto |-> call.dto, habit |-> call.habit,
                nextOccurrence |-> getNextOccurrence(updatedHabit, now)]]
    /\ UNCHANGED <<now, tz, habits, completions>>

\* await habitRepository.update(habitId, {nextOccurrenceAt})
UhReschedule(p) ==
    LET call == calls[p]
    IN
    /\ call.pc = "reschedule"
    /\ habits' = HabitSetNext(habits, call.target, call.nextOccurrence)
    /\ calls' = [calls EXCEPT ![p] =
          [pc |-> "final", op |-> "updateHabit", target |-> call.target,
           userId |-> call.userId, dto |-> call.dto, habit |-> call.habit]]
    /\ UNCHANGED <<now, tz, completions>>

\* await habitRepository.findById, then the call of the publisher
UhFinish(p) ==
    LET call == calls[p]
        finalHabit == HabitFindById(habits, call.target)
    IN
    /\ call.pc = "final"
    /\ calls' = [calls EXCEPT ![p] =
          IF finalHabit = NoRow
          THEN Answered("updateHabit", call.target, TypeError, "", << >>, FALSE)
          ELSE Publishing("updateHabit", call.target,
                   << [type |-> "habit.updated", habitId |-> call.target,
                       userId |-> call.userId,
                       oldFrequency |-> Rule(call.habit.frequencyType,
                                             call.habit.frequencyDetails),
                       newFrequency |-> Rule(finalHabit.frequencyType,
                                             finalHabit.frequencyDetails)] >>)]
    /\ UNCHANGED <<now, tz, habits, completions>>

NextUpdates ==
    \/ \E u \in Owners, r \in RequestRules : CreateHabit(u, r)
    \/ \E p \in Procs, u \in Users, h \in HabitIds, dto \in EditDtos :
          UhStart(p, u, h, dto)
    \/ \E p \in Procs : UhApply(p)
    \/ \E p \in Procs : UhReread(p)
    \/ \E p \in Procs : UhReschedule(p)
    \/ \E p \in Procs : UhFinish(p)
    \/ \E p \in Procs : Publish(p)
    \/ \E p \in Procs : McRespond(p)

SpecUpdates == Init /\ [][NextUpdates]_vars

-----------------------------------------------------------------------------
(* Properties.  A handler's outcome in a state is the record its operator   *)
(* yields there: what it would persist, raise, return and publish.         *)

\* every calendar day a request can name within the explored horizon
Days == (LocalDay(StartInstant) - 1)..(LocalDay(StartInstant + MaxElapsed) + 1)

\* the habit exists, is not deleted and belongs to the caller
Visible(habitId, userId) == HabitFindByIdAndUser(habits, habitId, userId) # NoRow

\* the completions of a habit recorded for the date a request names as day
LiveCompletions(cs, habitId, day) ==
    {c \in DOMAIN cs : /\ cs[c].habitId = habitId
                       /\ cs[c].scheduledFor = DateColumn(ParseDate(day))
                       /\ cs[c].undoneAt = NULL}

UndoneCompletions(cs, habitId, day) ==
    {c \in DOMAIN cs : /\ cs[c].habitId = habitId
                       /\ cs[c].scheduledFor = DateColumn(ParseDate(day))
                       /\ cs[c].undoneAt # NULL}

\* C1: markComplete calls racing on one habit and date leave at most one
\* non-undone completion for that habit and date.
C1_OneLiveCompletionPerDate ==
    \A h \in HabitIds, d \in Days :
        Cardinality(LiveCompletions(completions, h, d)) <= 1

\* C2: after every operation, a habit that is not ACTIVE has no next due
\* instant.
C2_InactiveHasNoNextDue ==
    \A h \in DOMAIN habits :
        habits[h].status # ACTIVE => habits[h].nextOccurrenceAt = NULL

\* C3: no operation moves an ARCHIVED habit to another status.
C3_ArchivedIsTerminal ==
    [][\A h \in DOMAIN habits :
          habits[h].status = ARCHIVED => habits'[h].status = ARCHIVED]_vars

\* C4: resumeHabit on a PAUSED habit makes it ACTIVE, persists a next due
\* instant strictly after now and returns the habit carrying that instant.
C4_ResumeSetsNextDue ==
    \A u \in Users, h \in HabitIds :
        (Visible(h, u) /\ habits[h].status = PAUSED) =>
            LET o == resumeHabit(u, h)
            IN /\ o.error = "none"
               /\ o.habits[h].status = ACTIVE
               /\ o.habits[h].nextOccurrenceAt # NULL
               /\ o.habits[h].nextOccurrenceAt > now
               /\ o.value.nextOccurrenceAt = o.habits[h].nextOccurrenceAt

\* C5: on an ACTIVE habit and a date that is not in the future, markComplete
\* succeeds whenever no non-undone completion stands for the date, undone
\* ones included, and leaves exactly one; undoCompletion within the window
\* succeeds and leaves none.  So complete, undo, complete again all succeed.
C5_CompleteUndoComplete ==
    \A u \in Users, h \in HabitIds, d \in Days :
        (Visible(h, u) /\ habits[h].status = ACTIVE /\ d <= LocalDay(now)) =>
            /\ LiveCompletions(completions, h, d) = {} =>
                  LET o == markComplete(h, u, d)
                  IN /\ o.error = "none"
                     /\ Cardinality(LiveCompletions(o.completions, h, d)) = 1
                     /\ UndoneCompletions(o.completions, h, d)
                           = UndoneCompletions(completions, h, d)
            /\ \A c \in LiveCompletions(completions, h, d) :
                  (completions[c].userId = u
                     /\ now - completions[c].completedAt <= UNDO_WINDOW_HOURS) =>
                      LET o == undoCompletion(c, u)
                      IN /\ o.error = "none"
                         /\ c \notin LiveCompletions(o.completions, h, d)
                         /\ c \in UndoneCompletions(o.completions, h, d)

\* the round trip has run: an undone completion and a later one that stands,
\* both for the same habit and date
C5_Witness ==
    \E h \in HabitIds, d \in Days :
        /\ UndoneCompletions(completions, h, d) # {}
        /\ Cardinality(LiveCompletions(completions, h, d)) = 1
        /\ \A c \in LiveCompletions(completions, h, d) :
              \E e \in UndoneCompletions(completions, h, d) : e < c

\* C6: markComplete for a habit and date that already has a non-undone
\* completion fails with a conflict, creates no record, leaves the habit's
\* next due instant as it was and publishes nothing.
C6_SecondCompleteConflicts ==
    \A u \in Users, h \in HabitIds, d \in Days :
        (Visible(h, u) /\ habits[h].status = ACTIVE
           /\ LiveCompletions(completions, h, d) # {}) =>
            LET o == markComplete(h, u, d)
            IN /\ o.error = ConflictException
               /\ o.completions = completions
               /\ o.habits = habits
               /\ o.emitted = << >>

C6_Witness ==
    \E u \in Users, h \in HabitIds, d \in Days :
        /\ Visible(h, u) /\ habits[h].status = ACTIVE
        /\ habits[h].nextOccurrenceAt # NULL
        /\ LiveCompletions(completions, h, d) # {}
        /\ markComplete(h, u, d).error = ConflictException

\* C7: markComplete for a date after today on the server's calendar,
\* tomorrow in particular, fails as invalid input and persists nothing, at
\* every time of day and whatever the offset between UTC and local days.
C7_FutureDateRejected ==
    \A u \in Users, h \in HabitIds, d \in Days :
        (Visible(h, u) /\ habits[h].status = ACTIVE /\ d > LocalDay(now)) =>
            LET o == markComplete(h, u, d)
            IN /\ o.error = BadRequestException
               /\ o.message = "Cannot complete a habit for a future date"
               /\ o.completions = completions
               /\ o.habits = habits

\* C8: markComplete on a PAUSED or ARCHIVED habit fails as invalid state,
\* creates no record and leaves the habit as it was.
C8_InactiveHabitNotCompletable ==
    \A u \in Users, h \in HabitIds, d \in Days :
        (Visible(h, u) /\ habits[h].status \in {PAUSED, ARCHIVED}) =>
            LET o == markComplete(h, u, d)
            IN /\ o.error = BadRequestException
               /\ o.message = "Cannot complete a paused or archived habit"
               /\ o.completions = completions
               /\ o.habits = habits
               /\ o.emitted = << >>

C8_Witness ==
    \E u \in Users, h \in HabitIds :
        /\ Visible(h, u) /\ habits[h].status = ARCHIVED
        /\ completions # << >>
        /\ markComplete(h, u, LocalDay(now)).error = BadRequestException

\* C9: undoCompletion of a standing completion fails as invalid state and
\* leaves undoneAt unset when more than 24 hours have passed since
\* completedAt; at 24 hours or less it succeeds and sets undoneAt to now.
C9_UndoWindow ==
    \A c \in DOMAIN completions :
        completions[c].undoneAt = NULL =>
            LET o == undoCompletion(c, completions[c].userId)
            IN IF now - completions[c].completedAt > 24
               THEN /\ o.error = BadRequestException
                    /\ o.message = "Cannot undo completion after 24 hours"
                    /\ o.completions = completions
                    /\ o.emitted = << >>
               ELSE /\ o.error = "none"
                    /\ o.completions =
                          [completions EXCEPT ![c].undoneAt = now]
                    /\ o.habits = habits

C9_Witness ==
    \E c \in DOMAIN completions :
        /\ completions[c].undoneAt = NULL
        /\ now - completions[c].completedAt = 25
        /\ undoCompletion(c, completions[c].userId).error = BadRequestException
        /\ undoCompletion(c, completions[c].userId).completions = completions

\* C10: undoCompletion of a completion already undone fails as invalid
\* state, leaves undoneAt at its first value and publishes nothing.
C10_SecondUndoRejected ==
    \A c \in DOMAIN completions :
        completions[c].undoneAt # NULL =>
            LET o == undoCompletion(c, completions[c].userId)
            IN /\ o.error = BadRequestException
               /\ o.message = "Completion already undone"
               /\ o.completions = completions
               /\ o.habits = habits
               /\ o.emitted = << >>

C10_Witness ==
    \E c \in DOMAIN completions :
        /\ completions[c].undoneAt # NULL
        /\ completions[c].undoneAt < now
        /\ now - completions[c].completedAt <= UNDO_WINDOW_HOURS
        /\ undoCompletion(c, completions[c].userId).error = BadRequestException

\* C11: for every valid DAILY, WEEKLY or CUSTOM rule of an ACTIVE habit,
\* every reference instant and every anchor (creation instant or persisted
\* next occurrence), the next occurrence is strictly after the reference.
C11_NextOccurrenceAfterNow ==
    \A h \in DOMAIN habits :
        habits[h].status = ACTIVE =>
            /\ getNextOccurrence(habits[h], now) # NULL
            /\ getNextOccurrence(habits[h], now) > now

\* a CUSTOM habit whose persisted anchor has fallen behind the clock, so
\* that the engine has to step over it
C11_Witness ==
    \E h \in DOMAIN habits :
        /\ habits[h].status = ACTIVE
        /\ habits[h].frequencyType = CUSTOM
        /\ habits[h].nextOccurrenceAt # NULL
        /\ habits[h].nextOccurrenceAt < now
        /\ getNextOccurrence(habits[h], now) > now

\* C12: for every ACTIVE habit reached by creating, editing, pausing,
\* resuming and completing, the next occurrence the engine computes falls
\* on a calendar day for which isScheduledForDate answers true.
C12_NextOccurrenceIsScheduled ==
    \A h \in DOMAIN habits :
        (habits[h].status = ACTIVE /\ habits[h].deletedAt = NULL) =>
            isScheduledForDate(habits[h], getNextOccurrence(habits[h], now))

NotFound(o) ==
    /\ o.error = NotFoundException
    /\ o.message = "Habit not found"
    /\ o.habits = habits
    /\ o.completions = completions
    /\ o.emitted = << >>

\* every call that addresses the habit by id fails as not found
AllNotFound(userId, habitId) ==
    /\ NotFound(getHabitById(userId, habitId))
    /\ NotFound(deleteHabit(userId, habitId))
    /\ NotFound(pauseHabit(userId, habitId))
    /\ NotFound(resumeHabit(userId, habitId))
    /\ NotFound(getCompletionsByHabit(habitId, userId))
    /\ \A dto \in UpdateDtos : NotFound(updateHabit(userId, habitId, dto))
    /\ \A d \in Days : NotFound(markComplete(habitId, userId, d))

\* C13: once deleteHabit has succeeded, get, update, pause, resume, delete
\* and markComplete by the owner fail as not found in every later state,
\* deletedAt is never cleared, and the habit appears neither in the owner's
\* list nor in the today schedule.
C13_DeletedStaysNotFound ==
    /\ [](\A h \in DOMAIN habits :
            habits[h].deletedAt # NULL =>
                /\ AllNotFound(habits[h].userId, h)
                /\ \A st \in HabitStatus \cup {"undefined"} :
                      h \notin getUserHabits(habits[h].userId, st).value
                /\ \A e \in getTodayScheduledHabits(habits[h].userId).value :
                      e.habitId # h)
    /\ [][\A h \in DOMAIN habits :
            habits[h].deletedAt # NULL =>
                /\ h \in DOMAIN habits'
                /\ habits'[h].deletedAt = habits[h].deletedAt]_vars

\* a deleted habit that was ACTIVE with a completion today, at a later hour
C13_Witness ==
    \E h \in DOMAIN habits :
        /\ habits[h].deletedAt # NULL
        /\ habits[h].deletedAt < now
        /\ habits[h].status = ACTIVE
        /\ \E c \in DOMAIN completions : completions[c].habitId = h
        /\ deleteHabit(habits[h].userId, h).error = NotFoundException

\* an id no habit row ever has
NoSuchHabit == "h0"

\* C14: every call that addresses a habit by id (get, update, pause, resume,
\* delete, markComplete, list completions), made by a user who does not own
\* the habit, fails as not found, with the very outcome the call has for an
\* id that does not exist, and leaves habits and completions as they were.
C14_StrangerSeesNotFound ==
    \A h \in DOMAIN habits : \A u \in Users \ {habits[h].userId} :
        /\ AllNotFound(u, h)
        /\ getHabitById(u, h) = getHabitById(u, NoSuchHabit)
        /\ deleteHabit(u, h) = deleteHabit(u, NoSuchHabit)
        /\ pauseHabit(u, h) = pauseHabit(u, NoSuchHabit)
        /\ resumeHabit(u, h) = resumeHabit(u, NoSuchHabit)
        /\ getCompletionsByHabit(h, u) = getCompletionsByHabit(NoSuchHabit, u)
        /\ \A dto \in UpdateDtos :
              updateHabit(u, h, dto) = updateHabit(u, NoSuchHabit, dto)
        /\ \A d \in Days : markComplete(h, u, d) = markComplete(NoSuchHabit, u, d)

\* a live habit with a completion, addressed by a user who is not its owner
C14_Witness ==
    \E h \in DOMAIN habits, u \in Users :
        /\ u # habits[h].userId
        /\ habits[h].deletedAt = NULL
        /\ habits[h].status = ACTIVE
        /\ CompletionFindByHabit(completions, h, habits[h].userId) # {}
        /\ markComplete(h, u, LocalDay(now)).error = NotFoundException
        /\ deleteHabit(u, h).error = NotFoundException

\* C15: createHabit with a valid rule persists exactly one new habit, ACTIVE,
\* with a next occurrence strictly after the creation instant, and returns
\* the habit carrying that next occurrence.
C15_CreateSchedulesHabit ==
    \A u \in Users, r \in EngineRules, id \in {"h1", "h2"} \ DOMAIN habits :
        LET o == createHabit(u, r, id)
        IN /\ o.error = "none"
           /\ DOMAIN o.habits = DOMAIN habits \cup {id}
           /\ \A h \in DOMAIN habits : o.habits[h] = habits[h]
           /\ o.completions = completions
           /\ o.habits[id].userId = u
           /\ o.habits[id].status = ACTIVE
           /\ o.habits[id].createdAt = now
           /\ o.habits[id].nextOccurrenceAt # NULL
           /\ o.habits[id].nextOccurrenceAt > now
           /\ o.value = o.habits[id]

\* a habit created after the clock has moved, as createHabit left it
C15_Witness ==
    \E h \in DOMAIN habits :
        /\ habits[h].createdAt = now
        /\ now > StartInstant
        /\ habits[h].status = ACTIVE
        /\ habits[h].frequencyType = CUSTOM
        /\ habits[h].nextOccurrenceAt > now

\* the dtos that set the status to ACTIVE, alone or with a rule
ActivatingDtos ==
    {UpdateDto("undefined", NoDetails, ACTIVE)}
    \cup {UpdateDto(r.frequencyType, r.frequencyDetails, ACTIVE) : r \in RuleInputs}

\* C16: an updateHabit that turns a PAUSED habit ACTIVE, with or without a
\* frequency change, recomputes the next occurrence: afterwards the habit is
\* ACTIVE with a next occurrence strictly after now.
C16_ActivationRecomputesNextDue ==
    \A u \in Users, h \in HabitIds, dto \in ActivatingDtos :
        (Visible(h, u) /\ habits[h].status = PAUSED) =>
            LET o == updateHabit(u, h, dto)
            IN o.error = "none" =>
                  /\ o.habits[h].status = ACTIVE
                  /\ o.habits[h].nextOccurrenceAt # NULL
                  /\ o.habits[h].nextOccurrenceAt > now

C19_NoCompletionsNoStreak ==
    \A h \in DOMAIN habits, u \in Users :
        (\A c \in DOMAIN completions :
            completions[c].habitId = h => completions[c].undoneAt # NULL) =>
            getStreakSummary(h, u) =
                [currentStreak |-> 0, longestStreak |-> 0, totalCompletions |-> 0]

\* a habit whose completions have all been undone
C19_Witness ==
    \E h \in DOMAIN habits :
        /\ \E c \in DOMAIN completions : completions[c].habitId = h
        /\ \A c \in DOMAIN completions :
              completions[c].habitId = h => completions[c].undoneAt # NULL
        /\ getStreakSummary(h, habits[h].userId).totalCompletions = 0

\* the calendar day is one of the habit's days of the week
InScope(habit, day) == (day + 4) % 7 \in habit.frequencyDetails.days

\* the number of in-scope days, counted back from day without a gap, that
\* have a non-undone completion
RECURSIVE CompletedRun(_, _, _)
CompletedRun(h, day, floor) ==
    IF day < floor THEN 0
    ELSE IF ~InScope(habits[h], day) THEN CompletedRun(h, day - 1, floor)
    ELSE IF LiveCompletions(completions, h, day) # {}
        THEN 1 + CompletedRun(h, day - 1, floor)
    ELSE 0

\* today, or the day before when today is in scope and not completed yet
RunStart(h) ==
    IF InScope(habits[h], LocalDay(now)) /\ LiveCompletions(completions, h, LocalDay(now)) = {}
    THEN LocalDay(now) - 1 ELSE LocalDay(now)

\* C20: for an ACTIVE WEEKLY habit, non-undone completions on the k most
\* recent in-scope days counted back from today (from the day before when
\* today is in scope and not completed yet), none of them missing, give
\* currentStreak = k; days outside daysOfWeek in between break nothing.
C20_WeeklyCurrentStreak ==
    \A h \in DOMAIN habits :
        (habits[h].deletedAt = NULL /\ habits[h].status = ACTIVE
           /\ habits[h].frequencyType = WEEKLY) =>
            calculateCurrentStreak(h, habits[h].userId)
                = CompletedRun(h, RunStart(h), LocalDay(StartInstant) - StreakBack - 1)

\* the number of days in a row, counted back from day, that have a
\* non-undone completion
RECURSIVE DailyRun(_, _, _)
DailyRun(h, day, floor) ==
    IF day < floor THEN 0
    ELSE IF LiveCompletions(completions, h, day) # {}
        THEN 1 + DailyRun(h, day - 1, floor)
    ELSE 0

\* the calendar days a completion of SpecStreak can name
StreakDays == (LocalDay(StartInstant) - StreakBack)..(LocalDay(StartInstant + StreakHorizon))

LongestDailyRun(h) ==
    LET runs == {DailyRun(h, day, LocalDay(StartInstant) - StreakBack) : day \in StreakDays}
    IN  CHOOSE n \in runs : \A m \in runs : n >= m

\* today, or the day before when today is not completed yet
DailyStart(h) ==
    IF LiveCompletions(completions, h, LocalDay(now)) = {}
    THEN LocalDay(now) - 1 ELSE LocalDay(now)

\* C21: for an ACTIVE DAILY habit, longestStreak is the length of the
\* longest run of consecutive days with a non-undone completion, and
\* currentStreak is the length of the run that ends today (the day before
\* when today is not completed yet); a day without a completion ends a run.
C21_DailyStreaksSplitAtGap ==
    \A h \in DOMAIN habits :
        (habits[h].deletedAt = NULL /\ habits[h].status = ACTIVE
           /\ habits[h].frequencyType = DAILY) =>
            /\ calculateLongestStreak(h, habits[h].userId) = LongestDailyRun(h)
            /\ calculateCurrentStreak(h, habits[h].userId)
                  = DailyRun(h, DailyStart(h), LocalDay(StartInstant) - StreakBack)

\* C22: a createHabit, updateHabit or markComplete whose write of the
\* recomputed next occurrence fails in the database leaves no write behind:
\* the step that ends in the failure leaves both tables as they were, so no
\* later read sees the habit row, the edit or the completion row.
C22_FailedRecomputationLeavesNoWrite ==
    [][\A p \in Procs :
          (/\ calls[p] = Idle
           /\ calls'[p].pc = "done"
           /\ calls'[p].error = QueryFailedError) =>
              /\ habits' = habits
              /\ completions' = completions]_vars

\* the notification each operation is to publish
EventKind(op) ==
    CASE op = "createHabit" -> "habit.created"
      [] op = "updateHabit" -> "habit.updated"
      [] op = "deleteHabit" -> "habit.deleted"
      [] op = "markComplete" -> "habit.completed"
      [] op = "undoCompletion" -> "habit.completion_undone"

NotifyingOps ==
    {"createHabit", "updateHabit", "deleteHabit", "markComplete", "undoCompletion"}

\* the mutation an event reports is in the tables
Persisted(e) ==
    CASE e.type = "habit.created" ->
            /\ e.habitId \in DOMAIN habits
            /\ habits[e.habitId].userId = e.userId
      [] e.type = "habit.updated" -> e.habitId \in DOMAIN habits
      [] e.type = "habit.deleted" ->
            /\ e.habitId \in DOMAIN habits
            /\ habits[e.habitId].deletedAt # NULL
      [] e.type = "habit.completed" ->
            /\ e.completionId \in DOMAIN completions
            /\ completions[e.completionId].habitId = e.habitId
      [] e.type = "habit.completion_undone" ->
            /\ e.completionId \in DOMAIN completions
            /\ completions[e.completionId].undoneAt # NULL

\* C23: a createHabit, updateHabit, deleteHabit, markComplete or
\* undoCompletion that succeeds has published exactly one notification, of
\* its own kind; one that fails with NotFoundException, BadRequestException
\* or ConflictException has published none; and whenever a notification is
\* about to be published or has been, the mutation it reports is persisted.
C23_OneNotificationAfterMutation ==
    \A p \in Procs :
        /\ (calls[p].pc = "done" /\ calls[p].op \in NotifyingOps) =>
              /\ calls[p].error = "none" =>
                    /\ Len(calls[p].published) = 1
                    /\ calls[p].published[1].type = EventKind(calls[p].op)
              /\ calls[p].error \in {NotFoundException, BadRequestException,
                                     ConflictException} =>
                    calls[p].published = << >>
        /\ calls[p].pc = "done" =>
              \A i \in DOMAIN calls[p].published : Persisted(calls[p].published[i])
        /\ calls[p].pc = "publish" =>
              \A i \in DOMAIN calls[p].events : Persisted(calls[p].events[i])

\* one caller holds the answer of a successful markComplete with its one
\* notification while another holds a CONFLICT that published nothing
C23_Witness ==
    \E p \in Procs, q \in Procs :
        /\ calls[p].pc = "done" /\ calls[q].pc = "done"
        /\ calls[p].op = "markComplete" /\ calls[p].error = "none"
        /\ Len(calls[p].published) = 1
        /\ calls[q].op = "markComplete" /\ calls[q].error = ConflictException
        /\ calls[q].published = << >>

\* C24: when a subscriber raises an error on a published notification, the
\* mutation stays persisted and the caller receives what it receives when
\* publishing succeeds, that is no error.
C24_PublishFailureKeepsResult ==
    \A p \in Procs :
        (calls[p].pc = "done" /\ calls[p].raised) =>
            /\ \A i \in DOMAIN calls[p].published : Persisted(calls[p].published[i])
            /\ calls[p].error = "none"

\* the kind the taxonomy gives to each failure, told by its message
ErrorKind(message) ==
    CASE message \in {"Habit not found", "Completion not found"} -> "NOT_FOUND"
      [] message \in {"Cannot complete a paused or archived habit",
                      "Cannot pause an archived habit",
                      "Cannot resume an archived habit",
                      "Completion already undone",
                      "Cannot undo completion after 24 hours"} -> "INVALID_STATE"
      [] message = "Habit already completed for this date" -> "CONFLICT"
      [] OTHER -> "INVALID_INPUT"

Failures == {NotFoundException, BadRequestException, ConflictException}

\* C25: two failures of different kinds of the taxonomy reach their callers
\* as different exceptions.
C25_ErrorKindsDistinct ==
    \A p \in Procs, q \in Procs :
        (/\ calls[p].pc = "done" /\ calls[p].error \in Failures
         /\ calls[q].pc = "done" /\ calls[q].error \in Failures
         /\ ErrorKind(calls[p].message) # ErrorKind(calls[q].message)) =>
            calls[p].error # calls[q].error

\* the rules of the validator a rule submitted breaks
ViolatedRules(dto) ==
    LET details == dto.frequencyDetails
        type == dto.frequencyType
    IN  {r \in {"time"} : details.time \notin 0..23}
        \cup {r \in {"days"} :
                 type = WEEKLY /\ (details.days = {} \/ ~(details.days \subseteq 0..6))}
        \cup {r \in {"count"} : type = CUSTOM /\ details.count \notin 1..365}
        \cup {r \in {"unit"} : type = CUSTOM /\ details.unit \notin {"days", "weeks"}}

\* the rules a failure message names
RulesNamed(message) ==
    CASE message \in {"Time is required for daily habits",
                      "Time is required for weekly habits",
                      "Time is required for custom habits",
                      "Time must be in HH:mm format"} -> {"time"}
      [] message \in {"At least one day must be selected for weekly habits",
                      "Days must be numbers between 0 (Sunday) and 6 (Saturday)"}
            -> {"days"}
      [] message \in {"Count is required for custom habits",
                      "Count must be between 1 and 365"} -> {"count"}
      [] message = "Unit must be days or weeks" -> {"unit"}
      [] OTHER -> {}

\* C26: a validation failure names every rule the submitted rule breaks.
C26_FailureEnumeratesEveryRule ==
    \A p \in Procs :
        (/\ calls[p].pc = "done"
         /\ calls[p].op = "validateFrequency"
         /\ calls[p].message # "ok") =>
            ViolatedRules(calls[p].dto) \subseteq RulesNamed(calls[p].message)

\* the habits of a user that are to be listed today
DueToday(userId) ==
    {h \in DOMAIN habits : /\ habits[h].userId = userId
                           /\ habits[h].deletedAt = NULL
                           /\ habits[h].status = ACTIVE
                           /\ isScheduledForDate(habits[h], SetHours(now, 0))}

\* C27: getTodayScheduledHabits(userId) lists every ACTIVE, non-deleted
\* habit of the user that is scheduled today, once each, and no other
\* habit, however many habits the user has.
C27_TodayListsEveryDueHabit ==
    \A u \in Users :
        LET entries == getTodayScheduledHabits(u).value
        IN  /\ {e.habitId : e \in entries} = DueToday(u)
            /\ Cardinality(entries) = Cardinality(DueToday(u))

C29_PauseRaceClearsNextDue ==
    \A h \in DOMAIN habits :
        habits[h].status = PAUSED => habits[h].nextOccurrenceAt = NULL

\* the connections whose undoCompletion of completion c has written undoneAt
UndoWriters(c) ==
    {p \in Procs : /\ calls[p].pc \in {"publish", "done"}
                   /\ calls[p].op = "undoCompletion"
                   /\ calls[p].target = c
                   /\ (calls[p].pc = "done" => calls[p].published # << >>)}

\* the connections whose undoCompletion of completion c has returned
UndoSuccesses(c) ==
    {p \in Procs : /\ calls[p].pc = "done"
                   /\ calls[p].op = "undoCompletion"
                   /\ calls[p].target = c
                   /\ calls[p].error = "none"}

\* C30: of the undoCompletion calls in flight for one completion at most
\* one writes undoneAt, at most one publishes, and at most one succeeds.
C30_ConcurrentUndoOnce ==
    \A c \in DOMAIN completions :
        /\ Cardinality(UndoWriters(c)) <= 1
        /\ Cardinality(UndoSuccesses(c)) <= 1

-----------------------------------------------------------------------------
\* days from the habit's creation date to the date of its next occurrence,
\* both on the server's calendar
PhaseDays(h) == LocalDay(habits[h].nextOccurrenceAt) - LocalDay(habits[h].createdAt)

\* C31: a CUSTOM habit whose interval is not edited has every persisted
\* next occurrence on a date a whole number of intervals after its creation
\* date, whatever creations, completions, pauses and resumes came before.
C31_CustomPhaseKept ==
    \A h \in DOMAIN habits :
        (habits[h].frequencyType = CUSTOM /\ habits[h].nextOccurrenceAt # NULL)
        => /\ PhaseDays(h) >= 0
           /\ PhaseDays(h) % IntervalDays(habits[h].frequencyDetails) = 0

\* a habit of interval two days or more, completed, whose next occurrence
\* was moved on by a recomputation
C31_Witness ==
    \E h \in DOMAIN habits :
        /\ habits[h].frequencyType = CUSTOM
        /\ habits[h].nextOccurrenceAt # NULL
        /\ IntervalDays(habits[h].frequencyDetails) >= 2
        /\ PhaseDays(h) >= IntervalDays(habits[h].frequencyDetails)
        /\ habits[h].createdAt < now
        /\ \E c \in DOMAIN completions : completions[c].habitId = h

-----------------------------------------------------------------------------
ScheduleBack == 6

\* the instants a caller asks about: noon of the days around today on the
\* server's calendar
ScheduleDates ==
    {SetHours(AddDays(now, i), 12) : i \in (0 - ScheduleBack)..ScheduleBack}

\* C32: an ACTIVE CUSTOM habit is scheduled on a date exactly when the days
\* from its creation date to that date are a multiple of intervalDays, for
\* every date, those before the creation date included.
C32_CustomScheduledByModulo ==
    \A h \in DOMAIN habits : \A date \in ScheduleDates :
        (habits[h].frequencyType = CUSTOM /\ habits[h].status = ACTIVE)
        => (isScheduledForDate(habits[h], date)
            <=> (LocalDay(date) - LocalDay(habits[h].createdAt))
                    % IntervalDays(habits[h].frequencyDetails) = 0)

\* the same, for the dates from the creation date on
C32_FromCreation ==
    \A h \in DOMAIN habits : \A date \in ScheduleDates :
        (/\ habits[h].frequencyType = CUSTOM
         /\ habits[h].status = ACTIVE
         /\ LocalDay(date) >= LocalDay(habits[h].createdAt))
        => (isScheduledForDate(habits[h], date)
            <=> (LocalDay(date) - LocalDay(habits[h].createdAt))
                    % IntervalDays(habits[h].frequencyDetails) = 0)

-----------------------------------------------------------------------------
\* instant s is an occurrence of a WEEKLY rule: a listed day of the week,
\* at the rule's time, on the server's clock
WeeklyOccurs(details, s) ==
    GetDay(s) \in details.days /\ s = SetHours(s, details.time)

\* C33: for a WEEKLY rule with listed days and every reference instant, the
\* next occurrence is the earliest instant strictly after the reference on a
\* listed day at the rule's time; no occurrence lies between the two.
C33_WeeklyNextIsEarliest ==
    \A h \in DOMAIN habits :
        (habits[h].frequencyType = WEEKLY /\ habits[h].status = ACTIVE)
        => LET details == habits[h].frequencyDetails
               next == getNextOccurrence(habits[h], now)
           IN  /\ next > now
               /\ next <= AddDays(now, DaysPerWeek)
               /\ WeeklyOccurs(details, next)
               /\ \A s \in (now + 1)..(next - 1) : ~WeeklyOccurs(details, s)

\* today is a listed day whose slot has passed and no listed day is left
\* this week: the engine wraps to the earliest listed day of next week
C33_Witness ==
    /\ \E h \in DOMAIN habits :
          /\ habits[h].frequencyType = WEEKLY /\ habits[h].status = ACTIVE
          /\ GetDay(now) \in habits[h].frequencyDetails.days
          /\ SetHours(now, habits[h].frequencyDetails.time) <= now
          /\ GetDay(getNextOccurrence(habits[h], now)) < GetDay(now)
          /\ habits[h].nextOccurrenceAt # NULL
          /\ habits[h].nextOccurrenceAt < now

-----------------------------------------------------------------------------
\* C34: markComplete checks NOT_FOUND, then INVALID_STATE, then
\* INVALID_INPUT, then CONFLICT: when several of the failure conditions hold
\* the first in that order is the one reported, and no failure writes.
C34_MarkCompleteCheckOrder ==
    \A u \in Users, h \in HabitIds, d \in Days :
        LET o == markComplete(h, u, d)
            inactive == habits[h].status # ACTIVE
            future == IsFutureDate(ParseDate(d), now)
            duplicate == isCompletedForDate(completions, h, ParseDate(d))
        IN  /\ ~Visible(h, u) =>
                 /\ o.error = NotFoundException
                 /\ ErrorKind(o.message) = "NOT_FOUND"
            /\ (Visible(h, u) /\ inactive) =>
                 /\ o.error = BadRequestException
                 /\ ErrorKind(o.message) = "INVALID_STATE"
            /\ (Visible(h, u) /\ ~inactive /\ future) =>
                 /\ o.error = BadRequestException
                 /\ ErrorKind(o.message) = "INVALID_INPUT"
            /\ (Visible(h, u) /\ ~inactive /\ ~future /\ duplicate) =>
                 /\ o.error = ConflictException
                 /\ ErrorKind(o.message) = "CONFLICT"
            /\ o.error # "none" =>
                 /\ o.habits = habits
                 /\ o.completions = completions
                 /\ o.emitted = << >>

\* several failures at once: the owner's habit is paused, completed
\* for today, and the date submitted is tomorrow; a stranger asks too
C34_Witness ==
    \E h \in HabitIds :
        /\ Visible(h, "u1")
        /\ habits[h].status = PAUSED
        /\ isCompletedForDate(completions, h, ParseDate(LocalDay(now)))
        /\ IsFutureDate(ParseDate(LocalDay(now) + 1), now)
        /\ ErrorKind(markComplete(h, "u1", LocalDay(now) + 1).message) = "INVALID_STATE"
        /\ ErrorKind(markComplete(h, "u1", LocalDay(now)).message) = "INVALID_STATE"
        /\ ErrorKind(markComplete(h, "u2", LocalDay(now) + 1).message) = "NOT_FOUND"

-----------------------------------------------------------------------------
\* C35: a habit with no in-scope day, as one that is not ACTIVE, has a streak
\* summary of zeros (currentStreak, longestStreak), whatever completions
\* that are not undone are recorded for it.
C35_NoScopeAllZeros ==
    \A u \in Users, h \in HabitIds :
        (Visible(h, u) /\ habits[h].status # ACTIVE) =>
            /\ getStreakSummary(h, u).currentStreak = 0
            /\ getStreakSummary(h, u).longestStreak = 0

\* the half of it that the code keeps
C35_CurrentStreakZero ==
    \A u \in Users, h \in HabitIds :
        (Visible(h, u) /\ habits[h].status # ACTIVE) =>
            getStreakSummary(h, u).currentStreak = 0

-----------------------------------------------------------------------------
\* the dtos that change the rule: the kind alone, the kind with its
\* parameters, and either with the status set to ACTIVE
RuleDtos ==
    {UpdateDto(type, NoDetails, st) :
        type \in {DAILY, WEEKLY, CUSTOM}, st \in {"undefined", ACTIVE}}
    \cup {UpdateDto(r.frequencyType, r.frequencyDetails, st) :
             r \in RuleInputs, st \in {"undefined", ACTIVE}}

\* the habit as the dto leaves it: the fields the dto sets, the old ones
\* elsewhere
Edited(habit, dto) ==
    [habit EXCEPT
        !.frequencyType = IF dto.frequencyType # "undefined"
                          THEN dto.frequencyType ELSE @,
        !.frequencyDetails = IF dto.frequencyDetails # NoDetails
                             THEN dto.frequencyDetails ELSE @,
        !.status = IF dto.status # "undefined" THEN dto.status ELSE @]

\* C36: an updateHabit that changes the rule and leaves the habit ACTIVE
\* persists, in the same operation, the next occurrence the engine computes
\* from the new rule, and returns the habit with the new rule and that next
\* occurrence.
C36_RuleChangeReschedules ==
    \A u \in Users, h \in HabitIds, dto \in RuleDtos :
        LET o == updateHabit(u, h, dto)
        IN  (o.error = "none" /\ Edited(habits[h], dto).status = ACTIVE) =>
                /\ o.habits[h].frequencyType = Edited(habits[h], dto).frequencyType
                /\ o.habits[h].frequencyDetails = Edited(habits[h], dto).frequencyDetails
                /\ o.habits[h].nextOccurrenceAt # NULL
                /\ o.habits[h].nextOccurrenceAt
                       = getNextOccurrence(Edited(habits[h], dto), now)
                /\ o.value = o.habits[h]

\* an ACTIVE habit whose rule an update replaces by one of another kind, the
\* next occurrence of the new rule not being that of the old one
C36_Witness ==
    \E u \in Users, h \in HabitIds, dto \in RuleDtos :
        /\ Visible(h, u)
        /\ habits[h].status = ACTIVE
        /\ habits[h].createdAt < now
        /\ dto.frequencyType # habits[h].frequencyType
        /\ dto.frequencyDetails # NoDetails
        /\ updateHabit(u, h, dto).error = "none"
        /\ updateHabit(u, h, dto).value.nextOccurrenceAt
               # getNextOccurrence(habits[h], now)

-----------------------------------------------------------------------------
\* the classification the today view owes a habit it lists
TodayStatus(h) ==
    IF LiveCompletions(completions, h, LocalDay(now)) # {} THEN "completed"
    ELSE IF habits[h].nextOccurrenceAt # NULL /\ habits[h].nextOccurrenceAt < now
    THEN "overdue" ELSE "pending"

\* C37: the today view gives every habit it lists one classification:
\* completed iff a completion for today that is not undone exists for it,
\* else overdue iff its next occurrence is set and in the past, else
\* pending; the three counts add up to the number of habits listed.
C37_TodayClassification ==
    \A u \in Users :
        LET listed == getTodayScheduledHabits(u).value
        IN  /\ \A e \in listed : e.status = TodayStatus(e.habitId)
            /\ \A e \in listed, f \in listed : e.habitId = f.habitId => e = f
            /\ Cardinality({e \in listed : e.status = "completed"})
                 + Cardinality({e \in listed : e.status = "pending"})
                 + Cardinality({e \in listed : e.status = "overdue"})
               = Cardinality(listed)

\* the same where the server's zone is UTC or east of it
C37_EastOfUtc == tz >= 0 => C37_TodayClassification

-----------------------------------------------------------------------------
\* C38: the streak summary of a habit, computed at one instant, has
\* currentStreak <= longestStreak <= totalCompletions, for rules of the
\* three kinds, CUSTOM rules of more than 7 days included.
C38_StreakSummaryOrdered ==
    \A u \in Users, h \in HabitIds :
        Visible(h, u) =>
            LET s == getStreakSummary(h, u)
            IN  /\ s.currentStreak <= s.longestStreak
                /\ s.longestStreak <= s.totalCompletions

\* the second half alone
C38_LongestWithinTotal ==
    \A u \in Users, h \in HabitIds :
        Visible(h, u) =>
            getStreakSummary(h, u).longestStreak <= getStreakSummary(h, u).totalCompletions

-----------------------------------------------------------------------------
\* C39: however concurrent updateHabit calls on one habit interleave, one
\* changing the kind with its parameters and one the parameters alone, the
\* parameters stored are valid for the kind stored: a WEEKLY habit has
\* days, a CUSTOM habit a count from 1 to 365.
C39_StoredRuleValid ==
    \A h \in DOMAIN habits :
        validateFrequency(habits[h].frequencyType, habits[h].frequencyDetails) = "ok"

-----------------------------------------------------------------------------
\* C40: undoCompletion of a completion whose habit is soft-deleted fails as
\* not found, leaves undoneAt as it was and publishes nothing.
C40_DeletedHabitCompletionsFrozen ==
    \A u \in Users, c \in DOMAIN completions :
        habits[completions[c].habitId].deletedAt # NULL =>
            LET o == undoCompletion(c, u)
            IN  /\ o.error = NotFoundException
                /\ o.completions = completions
                /\ o.emitted = << >>

====
